---- MODULE Spec2Model ----
(***************************************************************************)
(* Asynchronous job processing and real-time notification core of the      *)
(* Semantic-Search-Engine repository: queue transports (Redis list, SQS),  *)
(* the worker execution engine, the event bus subscriptions (Redis,        *)
(* DynamoDB poll emulation) and the WebSocket connection hub.              *)
(*                                                                         *)
(* One module, several specifications over disjoint groups of variables:   *)
(*   Spec         worker engine over a queue transport (Redis or SQS)      *)
(*   QueueSpec    a client of the queue transport (Enqueue/Dequeue/Delete) *)
(*   HubSpec      WebSocket connection hub                                 *)
(*   DynSpec      DynamoPubSub.Subscribe                                   *)
(*   RedisSubSpec RedisPubSub.Subscribe (RedisSubFairSpec: with the        *)
(*                fairness of the Go scheduler)                            *)
(***************************************************************************)
EXTENDS Integers, Sequences, FiniteSets, TLC

VARIABLES
    \* ---- queue transports and worker (Spec)
    backend,      \* "redis" | "sqs": the types.Queue wired into the worker
    rlist,        \* the Redis list: LPUSH appends, BRPOP takes the head
    sqs,          \* the SQS queue: sequence of message records
    produced,     \* number of Enqueue calls made by producers
    wpc,          \* worker position: "poll" | "process" | "handler" | "backoff" | "stopped"
    batch,        \* messages returned by the last Dequeue, not yet processed
    job,          \* the *Job of the message in progress
    cancelled,    \* w.ctx is cancelled (Stop was called)
    dispatchLog,  \* history: per root job, [att, type]: Attempts and Type at each handler call
    resubmits,    \* history: per root job, Enqueue calls made by the worker
    succeeded,    \* history: IDs of messages whose handler returned nil
    workerAcks,   \* history: message IDs the worker or a handler passed to Queue.Delete
    cbatch,       \* messages a second consumer (the integration test) holds
    cpolls,       \* number of Dequeue calls made by the second consumer
    timeouts,     \* number of visibility timeouts that have expired
    clast,        \* what the second consumer's last Dequeue returned
    cdel,         \* the LSET that a running RedisQueue.Delete of the second consumer has yet to send
    werrs,        \* Dequeue calls of the worker that failed since its last Dequeue that did not
    \* ---- WebSocket connection hub (HubSpec)
    clients,      \* h.clients: the registry
    send,         \* per client, the content of its send channel (the outbound buffer)
    chClosed,     \* per client, whether its send channel is closed
    projectID,    \* per client, its filter
    cst,          \* per client: "none" | "registered" | "open" | "aborted"
    rp,           \* per client, its readPump: "idle" | "run" | "done"
    wp,           \* per client, its writePump: "idle" | "run" | "done"
    connClosed,   \* per client, whether conn.Close() was called
    bc,           \* per broadcaster, the broadcastMessage call in progress or last made
    nbcast,       \* number of broadcasts started
    nframes,      \* number of inbound frames handled
    panicked,     \* the process died of an unrecovered panic
    \* ---- DynamoPubSub.Subscribe (DynSpec)
    dpc,          \* the background task: "select" | "query" | "send" | "closed"
    ditems,       \* the items of the current query result not yet sent
    dtick,        \* a tick is waiting in ticker.C
    dcancelled,   \* ctx is cancelled
    dcancelAt,    \* where the task was when ctx was cancelled
    dcloses,      \* how many times the channel was closed
    delapsed,     \* poll intervals that ended since the cancellation
    dnow,         \* the time, in poll intervals
    dtable,       \* the events table: [data, ts]
    drecv,        \* the consumer: "idle" | "recv" | "gone" | "ended"
    dgot,         \* the values the consumer received
    dgotAtClose,  \* Len(dgot) when the channel was closed
    dqfailed,     \* some Query returned an error
    \* ---- RedisPubSub.Subscribe (RedisSubSpec)
    rpc,          \* the background task: "range" | "send" | "closed"
    rup,          \* the messages waiting in pubsub.Channel()
    rupClosed,    \* pubsub.Channel() is closed
    rcur,         \* the decoded payload the task is sending
    rcancelled,   \* ctx is cancelled
    rcloses,      \* how many times the channel was closed
    rpublished,   \* number of messages published on the channel
    rrecv,        \* the consumer: "idle" | "recv" | "gone" | "ended"
    rgot          \* the values the consumer received

wvars == <<backend, rlist, sqs, produced, wpc, batch, job, cancelled,
           dispatchLog, resubmits, succeeded, workerAcks, cbatch, cpolls, timeouts, clast, werrs, cdel>>

hvars == <<clients, send, chClosed, projectID, cst, rp, wp, connClosed, bc, nbcast,
           nframes, panicked>>

dvars == <<dpc, ditems, dtick, dcancelled, dcancelAt, dcloses, delapsed, dnow, dtable,
           drecv, dgot, dgotAtClose, dqfailed>>

rsvars == <<rpc, rup, rupClosed, rcur, rcancelled, rcloses, rpublished, rrecv, rgot>>

vars == <<wvars, hvars, dvars, rsvars>>

(***************************************************************************)
(* Bounds of the model.                                                    *)
(***************************************************************************)
MaxProduced == 2
MaxInvoke == 4
MaxClientPolls == 2
MaxTimeouts == 1
MaxDequeueErrors == 2
MaxClients == 2
MaxBroadcasts == 2
MaxFrames == 2
SendCap == 2
MaxNow == 3
MaxEvents == 2
MaxPublished == 2

(***************************************************************************)
(* Program constants.                                                      *)
(***************************************************************************)
DefaultMaxRetries == 3
SqsMaxNumberOfMessages == 10

Roots == 1..MaxProduced

\* Job types: a handler that always fails, one that always succeeds, and a
\* type nobody registered.
JobTypes == {"t_fail", "t_ok", "t_none"}
Handlers == {"t_fail", "t_ok"}

(***************************************************************************)
(* Go values and their JSON encoding (encoding/json).                      *)
(* A Go value is a record tagged by g; a JSON text is a record tagged by j.*)
(***************************************************************************)
NoID == <<"", 0, 0>>
JobID(k) == <<"job", k, 0>>
ReceiptHandle(i, c) == <<"rh", i, c>>

GoNil == [g |-> "nil"]
GoMap(k) == [g |-> "map", k |-> k]              \* map[string]interface{}; k = 0: empty
GoMapSS(k) == [g |-> "mapss", k |-> k]          \* map[string]string
GoInt(n) == [g |-> "int", n |-> n]
GoFloat(n) == [g |-> "float", n |-> n]
GoStr(s) == [g |-> "str", s |-> s]              \* s: the text, itself a JSON text or bad
GoJob(j) == [g |-> "job", job |-> j]            \* *Job
\* a map[string]interface{} holding the fields of a marshalled Job
GoJobMap(id, type, data, att, maxr) ==
    [g |-> "jobmap", id |-> id, type |-> type, data |-> data, attempts |-> att,
     max_retries |-> maxr]

NewJob(id, type, data, att, maxr) ==
    [ID |-> id, Type |-> type, Data |-> data, Attempts |-> att, MaxRetries |-> maxr]

JBad == [j |-> "bad"]                           \* a text that is not JSON
JNull == [j |-> "null"]

RECURSIVE Marshal(_)
Marshal(v) ==
    CASE v.g = "nil" -> JNull
      [] v.g \in {"map", "mapss"} -> [j |-> "obj", k |-> v.k]
      [] v.g \in {"int", "float"} -> [j |-> "num", n |-> v.n]
      [] v.g = "str" -> [j |-> "str", s |-> v.s]
      [] v.g = "job" -> [j |-> "jobobj", id |-> v.job.ID, type |-> v.job.Type,
                         data |-> Marshal(v.job.Data), attempts |-> v.job.Attempts,
                         max_retries |-> v.job.MaxRetries]
      [] v.g = "jobmap" -> [j |-> "jobobj", id |-> v.id, type |-> v.type,
                            data |-> Marshal(v.data), attempts |-> v.attempts,
                            max_retries |-> v.max_retries]

\* json.Unmarshal into an interface{}
RECURSIVE UnmarshalAny(_)
UnmarshalAny(t) ==
    CASE t.j = "null" -> GoNil
      [] t.j = "obj" -> GoMap(t.k)
      [] t.j = "num" -> GoFloat(t.n)
      [] t.j = "str" -> GoStr(t.s)
      [] t.j = "jobobj" -> GoJobMap(t.id, t.type, UnmarshalAny(t.data), t.attempts,
                                    t.max_retries)

\* json.Unmarshal of a JSON object into map[string]interface{}; ok = FALSE on error
UnmarshalMap(t) ==
    IF t.j \in {"obj", "jobobj"} THEN [ok |-> TRUE, v |-> UnmarshalAny(t)]
    ELSE IF t.j = "null" THEN [ok |-> TRUE, v |-> GoMap(0)]
    ELSE [ok |-> FALSE, v |-> GoMap(0)]

\* json.Unmarshal into a Job struct: unknown keys are ignored, missing ones stay zero
UnmarshalJob(t) ==
    CASE t.j = "jobobj" ->
            [ok |-> TRUE,
             job |-> NewJob(t.id, t.type,
                            IF t.data.j \in {"obj", "jobobj"} THEN UnmarshalAny(t.data)
                            ELSE GoMap(0),
                            t.attempts, t.max_retries)]
      [] t.j \in {"obj", "null"} -> [ok |-> TRUE, job |-> NewJob(NoID, "", GoMap(0), 0, 0)]
      [] OTHER -> [ok |-> FALSE, job |-> NewJob(NoID, "", GoMap(0), 0, 0)]

QueueMessage(id, type, payload) == [ID |-> id, Type |-> type, Payload |-> payload]

(***************************************************************************)
(* Redis list transport.  A list entry is [raw, root]: raw is the stored   *)
(* text, root is a history field naming the producer call it descends from.*)
(***************************************************************************)
\* The list is written from the end BRPOP pops (index 1, the right end of
\* the Redis list) to the end LPUSH pushes to.
\* a push at the end that BRPOP pops (RPUSH)
RPush(list, e) == <<e>> \o list

\* LPUSH: the new entry is the last one BRPOP will reach
LPush(list, e) == Append(list, e)

\* RedisQueue.Enqueue: only a *Job is accepted; jobType is not used
RedisEnqueue(list, jobType, payload, root) ==
    IF payload.g # "job" THEN [ok |-> FALSE, list |-> list]
    ELSE [ok |-> TRUE, list |-> LPush(list, [raw |-> Marshal(payload), root |-> root])]

\* RedisQueue.Dequeue on a popped entry: ok = FALSE is the unmarshal error
RedisDequeueMsg(entry) ==
    LET r == UnmarshalJob(entry.raw) IN
    [ok |-> r.ok, msg |-> QueueMessage(r.job.ID, r.job.Type, r.job.Data)]

(***************************************************************************)
(* SQS transport.  A message is [body, root, st, rc, sentType, sentPayload]*)
(* with st in visible/inflight/deleted and rc the number of receives; the  *)
(* receipt handle of message i at its c-th receive is ReceiptHandle(i, c). *)
(* root, sentType and sentPayload are history fields.                      *)
(***************************************************************************)
SQSBody(jobType, payload) ==
    [j |-> "env", type |-> [j |-> "str", s |-> jobType], payload |-> Marshal(payload)]

\* SQSQueue.Enqueue
SQSEnqueue(q, jobType, payload, root) ==
    Append(q, [body |-> SQSBody(jobType, payload), root |-> root, st |-> "visible",
               rc |-> 0, sentType |-> jobType, sentPayload |-> payload])

\* a Dequeue that reads the payload under a key the body does not have
SQSDequeueMsgWrongKey(m, handle) ==
    [ok |-> TRUE, msg |-> QueueMessage(handle, UnmarshalAny(m.body.type).s, GoNil)]

\* SQSQueue.Dequeue on one received message
SQSDequeueMsg(m, handle) ==
    LET msgType == UnmarshalAny(m.body.type) IN
    [ok |-> msgType.g = "str",
     msg |-> QueueMessage(handle, IF msgType.g = "str" THEN msgType.s ELSE "",
                          UnmarshalAny(m.body.payload))]

\* SQSQueue.Delete: DeleteMessage deletes the message whose most recent
\* receipt handle is the one given
SQSDelete(q, handle) ==
    [i \in DOMAIN q |->
        IF q[i].st # "deleted" /\ q[i].rc > 0 /\ handle = ReceiptHandle(i, q[i].rc)
        THEN [q[i] EXCEPT !.st = "deleted"] ELSE q[i]]

\* ReceiveMessage of the messages with indices in S: each becomes in flight
SQSReceive(q, S) ==
    [i \in DOMAIN q |->
        IF i \in S THEN [q[i] EXCEPT !.st = "inflight", !.rc = @ + 1] ELSE q[i]]

\* the indices of a set of naturals in increasing order
RECURSIVE SortedSeq(_)
SortedSeq(S) ==
    IF S = {} THEN <<>>
    ELSE LET m == CHOOSE x \in S : \A y \in S : x <= y IN <<m>> \o SortedSeq(S \ {m})

\* SQSQueue.Dequeue: the QueueMessages built from the received messages, in
\* the order received; a message without a string type is skipped
RECURSIVE SQSDequeueBatch(_, _)
SQSDequeueBatch(q, idxs) ==
    IF idxs = <<>> THEN <<>>
    ELSE LET i == Head(idxs)
             r == SQSDequeueMsg(q[i], ReceiptHandle(i, q[i].rc))
         IN (IF r.ok THEN <<[msg |-> r.msg, root |-> q[i].root, idx |-> i]>> ELSE <<>>)
            \o SQSDequeueBatch(q, Tail(idxs))

\* RedisQueue.Delete: LRANGE 0 -1 lists the newest entry first; the first
\* entry whose job ID is messageID is overwritten with the text DELETED
RedisDeleteIndex(list, messageID) ==
    LET hits == {i \in DOMAIN list :
                    /\ UnmarshalJob(list[i].raw).ok
                    /\ UnmarshalJob(list[i].raw).job.ID = messageID}
    IN IF hits = {} THEN 0 ELSE CHOOSE i \in hits : \A h \in hits : h <= i

\* the index LRANGE 0 -1 gives that entry: counted from 0 at the end LPUSH
\* pushes to; -1 when no entry has the ID
RedisDeleteFind(list, messageID) ==
    LET i == RedisDeleteIndex(list, messageID) IN
    IF i = 0 THEN -1 ELSE Len(list) - i

\* LSET index "DELETED" on the list as it is when the command arrives; an
\* index out of range is an error and writes nothing
LSet(list, index, text) ==
    LET i == Len(list) - index IN
    IF i \in DOMAIN list THEN [list EXCEPT ![i] = [raw |-> text, root |-> list[i].root]]
    ELSE list

\* RedisQueue.Delete when no other command reaches the list between its
\* LRANGE and its LSET
RedisDelete(list, messageID) ==
    LET index == RedisDeleteFind(list, messageID) IN
    IF index = -1 THEN list ELSE LSet(list, index, JBad)

\* no Delete of the second consumer is between its two commands
NoDelete == [on |-> FALSE, index |-> 0, id |-> NoID]

(***************************************************************************)
(* Initial state of the worker specification.                              *)
(***************************************************************************)
NoJob == NewJob(NoID, "", GoMap(0), 0, 0)

\* no Dequeue made yet
NoDequeue == [err |-> FALSE, fault |-> FALSE, avail |-> FALSE, n |-> 0]

WorkerInitWith(b) ==
    /\ backend = b
    /\ rlist = <<>>
    /\ sqs = <<>>
    /\ produced = 0
    /\ wpc = "poll"
    /\ batch = <<>>
    /\ job = [j |-> NoJob, root |-> 0, sleep |-> 0]
    /\ cancelled = FALSE
    /\ dispatchLog = [k \in Roots |-> <<>>]
    /\ resubmits = [k \in Roots |-> 0]
    /\ succeeded = {}
    /\ workerAcks = {}
    /\ cbatch = <<>>
    /\ cpolls = 0
    /\ timeouts = 0
    /\ clast = NoDequeue
    /\ cdel = NoDelete
    /\ werrs = 0

\* NewWebSocketHandler: an empty registry
HubInit ==
    /\ clients = {}
    /\ send = [c \in 1..MaxClients |-> <<>>]
    /\ chClosed = [c \in 1..MaxClients |-> FALSE]
    /\ projectID = [c \in 1..MaxClients |-> ""]
    /\ cst = [c \in 1..MaxClients |-> "none"]
    /\ rp = [c \in 1..MaxClients |-> "idle"]
    /\ wp = [c \in 1..MaxClients |-> "idle"]
    /\ connClosed = [c \in 1..MaxClients |-> FALSE]
    /\ bc = [pc |-> "idle", id |-> 0, type |-> "", pid |-> "", todo |-> {}, snap |-> {},
             visits |-> {}]
    /\ nbcast = 0
    /\ nframes = 0
    /\ panicked = FALSE

\* DynamoPubSub.Subscribe has just returned the channel; tbl holds the events
\* published before the call
DynInitWith(tbl) ==
    /\ dpc = "select"
    /\ ditems = <<>>
    /\ dtick = FALSE
    /\ dcancelled = FALSE
    /\ dcancelAt = "none"
    /\ dcloses = 0
    /\ delapsed = 0
    /\ dnow = 0
    /\ dtable = tbl
    /\ drecv = "idle"
    /\ dgot = <<>>
    /\ dgotAtClose = 0
    /\ dqfailed = FALSE

DynInit == DynInitWith(<<>>)

\* RedisPubSub.Subscribe has just returned the channel
RedisSubInit ==
    /\ rpc = "range"
    /\ rup = <<>>
    /\ rupClosed = FALSE
    /\ rcur = GoNil
    /\ rcancelled = FALSE
    /\ rcloses = 0
    /\ rpublished = 0
    /\ rrecv = "idle"
    /\ rgot = <<>>

Init ==
    /\ \E b \in {"redis", "sqs"} : WorkerInitWith(b)
    /\ HubInit
    /\ DynInit
    /\ RedisSubInit

(***************************************************************************)
(* Producers.                                                              *)
(***************************************************************************)
PayloadKinds == {"job", "map", "mapss", "int", "strbad", "strobj"}

\* the payload a producer passes: a *Job as the Create...Job constructors
\* build it (Attempts 0, MaxRetries 3), the job's Data map as StartAnalysis
\* passes it, or another JSON-serialisable value as the integration test does
ProducerPayload(kind, t, k) ==
    CASE kind = "job" -> GoJob(NewJob(JobID(k), t, GoMap(k), 0, DefaultMaxRetries))
      [] kind = "map" -> GoMap(k)
      [] kind = "mapss" -> GoMapSS(k)
      [] kind = "int" -> GoInt(42)
      [] kind = "strbad" -> GoStr(JBad)
      [] kind = "strobj" -> GoStr([j |-> "obj", k |-> k])

\* Queue.Enqueue on the wired backend: the store after the call and whether
\* the call returned nil; fault: the backend call fails
EnqueueOn(jobType, payload, root, fault) ==
    IF fault THEN [ok |-> FALSE, rlist |-> rlist, sqs |-> sqs]
    ELSE IF backend = "redis"
    THEN LET r == RedisEnqueue(rlist, jobType, payload, root) IN
         [ok |-> r.ok, rlist |-> r.list, sqs |-> sqs]
    ELSE [ok |-> TRUE, rlist |-> rlist, sqs |-> SQSEnqueue(sqs, jobType, payload, root)]

\* a producer (APIHandler.StartAnalysis, a test) calls Enqueue
ProducerEnqueue ==
    /\ produced < MaxProduced
    /\ produced' = produced + 1
    /\ \E t \in JobTypes, kind \in PayloadKinds :
          LET r == EnqueueOn(t, ProducerPayload(kind, t, produced + 1), produced + 1, FALSE)
          IN /\ rlist' = r.rlist
             /\ sqs' = r.sqs
    /\ UNCHANGED <<backend, wpc, batch, job, cancelled, dispatchLog, resubmits,
                   succeeded, workerAcks, cbatch, cpolls, timeouts, clast,
                   werrs, cdel, hvars, dvars, rsvars>>

(***************************************************************************)
(* Dequeue, shared by the worker and the second consumer.  DequeueResult   *)
(* is the set of outcomes [err, msgs, rlist, sqs] the backend can produce. *)
(***************************************************************************)
\* a read of the oldest entry that leaves it on the list
BRPopKeeps(list) == [entry |-> Head(list), rest |-> list]

\* BRPOP on a list that is not empty: one command of the server takes the
\* oldest entry off the list and returns it
BRPop(list) == [entry |-> Head(list), rest |-> Tail(list)]

RedisDequeueResults ==
    {[err |-> TRUE, fault |-> TRUE, msgs |-> <<>>, rlist |-> rlist, sqs |-> sqs]} \cup
    (IF rlist = <<>>
     THEN {[err |-> FALSE, fault |-> FALSE, msgs |-> <<>>, rlist |-> rlist, sqs |-> sqs]}
     ELSE LET p == BRPop(rlist)
              r == RedisDequeueMsg(p.entry)
          IN {[err |-> ~r.ok, fault |-> FALSE,
               msgs |-> IF r.ok THEN <<[msg |-> r.msg, root |-> p.entry.root, idx |-> 0]>>
                        ELSE <<>>,
               rlist |-> p.rest, sqs |-> sqs]})

\* ReceiveMessage is a long poll (WaitTimeSeconds > 0): it answers with up to
\* MaxNumberOfMessages of the visible messages, and with none only when none
\* is visible
SQSDequeueResults ==
    LET visible == {i \in DOMAIN sqs : sqs[i].st = "visible"} IN
    {[err |-> TRUE, fault |-> TRUE, msgs |-> <<>>, rlist |-> rlist, sqs |-> sqs]} \cup
    {[err |-> FALSE, fault |-> FALSE,
      msgs |-> SQSDequeueBatch(SQSReceive(sqs, S), SortedSeq(S)),
      rlist |-> rlist, sqs |-> SQSReceive(sqs, S)] :
        S \in {T \in SUBSET visible :
                  /\ Cardinality(T) <= SqsMaxNumberOfMessages
                  /\ T = {} => visible = {}}}

DequeueResults == IF backend = "redis" THEN RedisDequeueResults ELSE SQSDequeueResults

\* whether the backend holds a message a Dequeue could take
MessageAvailable ==
    IF backend = "redis" THEN rlist # <<>>
    ELSE \E i \in DOMAIN sqs : sqs[i].st = "visible"

(***************************************************************************)
(* Worker.Start and Worker.processMessage.                                 *)
(***************************************************************************)
\* handler invocations so far, over all jobs
RECURSIVE SumLen(_, _)
SumLen(f, S) ==
    IF S = {} THEN 0
    ELSE LET k == CHOOSE x \in S : TRUE IN Len(f[k]) + SumLen(f, S \ {k})

Invocations == SumLen(dispatchLog, Roots)

\* after a message: the next one of the batch, or back to the poll loop
NextMessage(rest) ==
    /\ batch' = rest
    /\ job' = [j |-> NoJob, root |-> 0, sleep |-> 0]
    /\ wpc' = IF rest = <<>> THEN "poll" ELSE "process"

\* a select that never takes the ctx.Done() case
StartSelectsDoneNever(ctxDone) == FALSE

\* Start, lines 43-47: the select takes the ctx.Done() case when it is ready
\* and its default case otherwise
StartSelectsDone(ctxDone) == ctxDone

\* Start, lines 47-56: ctx is live, so the select takes its default branch and
\* calls Dequeue; after an error, and after an empty result, the loop goes on
\* at once.  A batch is taken only while the bound on the handler invocations
\* leaves room for all of it.
\* a loop that ends when Dequeue returns an error
AfterDequeueErrorReturns(r) ==
    IF r.err THEN "stopped" ELSE IF r.msgs = <<>> THEN "poll" ELSE "process"

\* Start, lines 49-60: after an error and after an empty result the loop
\* continues with the next poll; a batch is processed
AfterDequeue(r) == IF r.err \/ r.msgs = <<>> THEN "poll" ELSE "process"

WorkerDequeue ==
    /\ wpc = "poll"
    /\ ~StartSelectsDone(cancelled)
    /\ \E r \in DequeueResults :
          /\ r.err => werrs < MaxDequeueErrors
          /\ Invocations + Len(r.msgs) <= MaxInvoke
          /\ rlist' = r.rlist
          /\ sqs' = r.sqs
          /\ batch' = IF r.err THEN <<>> ELSE r.msgs
          /\ wpc' = AfterDequeue(r)
          /\ werrs' = IF r.err THEN werrs + 1 ELSE 0
    /\ UNCHANGED <<backend, produced, job, cancelled, dispatchLog,
                   resubmits, succeeded, workerAcks, cbatch, cpolls, timeouts, clast,
                   cdel, hvars, dvars, rsvars>>

\* Start: ctx.Done() is ready at the top of the loop
WorkerReturn ==
    /\ wpc = "poll"
    /\ StartSelectsDone(cancelled)
    /\ wpc' = "stopped"
    /\ UNCHANGED <<backend, rlist, sqs, produced, batch, job, cancelled,
                   dispatchLog, resubmits, succeeded, workerAcks, cbatch, cpolls, timeouts, clast,
                   werrs, cdel, hvars, dvars, rsvars>>

\* Stop: cancel the context
WorkerStop ==
    /\ ~cancelled
    /\ cancelled' = TRUE
    /\ UNCHANGED <<backend, rlist, sqs, produced, wpc, batch, job,
                   dispatchLog, resubmits, succeeded, workerAcks, cbatch, cpolls, timeouts, clast,
                   werrs, cdel, hvars, dvars, rsvars>>

\* processMessage, lines 66-81: the Job built from a QueueMessage
JobOfMessage(msg) ==
    LET fresh == NewJob(msg.ID, msg.Type, GoMap(0), 0, 0) IN
    IF msg.Payload.g \in {"map", "jobmap"}
    THEN [ok |-> TRUE, job |-> [fresh EXCEPT !.Data = msg.Payload]]
    ELSE IF msg.Payload.g = "str"
    THEN IF msg.Payload.s.j = "bad"
         THEN [ok |-> FALSE, job |-> fresh]
         ELSE LET d == UnmarshalMap(msg.Payload.s) IN
              [ok |-> d.ok, job |-> [fresh EXCEPT !.Data = d.v]]
    ELSE [ok |-> TRUE, job |-> fresh]

\* processMessage, lines 93-98: the defaults set before the handler is called
WithDefaults(j) ==
    [j EXCEPT !.Attempts = IF j.Attempts = 0 THEN 1 ELSE j.Attempts,
              !.MaxRetries = IF j.MaxRetries = 0 THEN DefaultMaxRetries ELSE j.MaxRetries]

\* a lookup that finds a handler for every type
HandlerExistsAlways(t) == TRUE

\* processMessage, line 87: the lookup in w.handlers
HandlerExists(t) == t \in Handlers

\* a loop that does not move on to the next message
RestOfBatchSame(b) == b

\* Start, line 58: the range goes on with the messages after this one
RestOfBatch(b) == Tail(b)

\* a loop that starts from the last message of the batch
NextInBatchLast(b) == b[Len(b)]

\* Start, line 58: the range takes the messages in the order Dequeue returned
NextInBatch(b) == Head(b)

\* processMessage up to the handler call (lines 65-103)
ProcessMessage ==
    /\ wpc = "process"
    /\ batch # <<>>
    /\ LET m == NextInBatch(batch)
           r == JobOfMessage(m.msg)
       IN IF ~r.ok \/ ~HandlerExists(r.job.Type)
          THEN /\ NextMessage(RestOfBatch(batch))
               /\ UNCHANGED dispatchLog
          ELSE /\ job' = [j |-> WithDefaults(r.job), root |-> m.root, sleep |-> 0]
               /\ dispatchLog' = [dispatchLog EXCEPT
                                     ![m.root] = Append(@, [att |-> WithDefaults(r.job).Attempts,
                                                            type |-> r.job.Type,
                                                            data |-> r.job.Data])]
               /\ batch' = RestOfBatch(batch)
               /\ wpc' = "handler"
    /\ UNCHANGED <<backend, rlist, sqs, produced, cancelled, resubmits,
                   succeeded, workerAcks, cbatch, cpolls, timeouts, clast,
                   werrs, cdel, hvars, dvars, rsvars>>

\* the handler's result: the handler of t_fail returns an error on every call
HandlerFails(j) == j.Type = "t_fail"

\* whether a failed job is submitted again (line 111)
ShouldRetry(j) == j.Attempts < j.MaxRetries

\* the seconds the worker sleeps before it submits the job again (line 117)
Backoff(j) == j.Attempts * j.Attempts

\* processMessage after the handler returned (lines 104-132)
HandlerReturn ==
    /\ wpc = "handler"
    /\ IF HandlerFails(job.j)
       THEN IF ShouldRetry(job.j)
            THEN /\ wpc' = "backoff"
                 /\ job' = [job EXCEPT !.sleep = Backoff(job.j)]
                 /\ UNCHANGED <<batch, succeeded>>
            ELSE /\ NextMessage(batch)
                 /\ UNCHANGED succeeded
       ELSE /\ NextMessage(batch)
            /\ succeeded' = succeeded \cup {job.j.ID}
    /\ UNCHANGED <<backend, rlist, sqs, produced, cancelled,
                   dispatchLog, resubmits, workerAcks, cbatch, cpolls, timeouts, clast,
                   werrs, cdel, hvars, dvars, rsvars>>

\* a resubmission that leaves Attempts as it is
RetryJobSameAttempts(j) == j

\* the job as it is submitted again (line 119)
RetryJob(j) == [j EXCEPT !.Attempts = @ + 1]

\* a worker that tries the Enqueue again when it failed
AfterResubmitTriesAgain(ok, rest) ==
    IF ok THEN NextMessage(rest) ELSE UNCHANGED <<wpc, batch, job>>

\* processMessage, lines 120-122: the error of Enqueue is logged, and
\* processMessage returns in either case
AfterResubmit(ok, rest) == NextMessage(rest)

\* processMessage, lines 117-122: after the sleep, Attempts++ and Enqueue; an
\* Enqueue on a cancelled context fails
Resubmit ==
    /\ wpc = "backoff"
    /\ \E fault \in BOOLEAN :
          /\ cancelled => fault
          /\ LET r == EnqueueOn(job.j.Type, GoJob(RetryJob(job.j)), job.root, fault)
             IN /\ rlist' = r.rlist
                /\ sqs' = r.sqs
                /\ AfterResubmit(r.ok, batch)
    /\ resubmits' = [resubmits EXCEPT ![job.root] = @ + 1]
    /\ UNCHANGED <<backend, produced, cancelled, dispatchLog, succeeded, workerAcks,
                   cbatch, cpolls, timeouts, clast,
                   werrs, cdel, hvars, dvars, rsvars>>

(***************************************************************************)
(* The environment: the SQS visibility timeout, and a second consumer that *)
(* dequeues and deletes as TestSQSQueue_Integration does.                  *)
(***************************************************************************)
VisibilityTimeout ==
    /\ timeouts < MaxTimeouts
    /\ timeouts' = timeouts + 1
    /\ \E i \in DOMAIN sqs :
          /\ sqs[i].st = "inflight"
          /\ sqs' = [sqs EXCEPT ![i].st = "visible"]
    /\ UNCHANGED <<backend, rlist, produced, wpc, batch, job, cancelled,
                   dispatchLog, resubmits, succeeded, workerAcks, cbatch, cpolls, clast,
                   werrs, cdel, hvars, dvars, rsvars>>

ClientDequeue ==
    /\ cpolls < MaxClientPolls
    /\ cbatch = <<>>
    /\ ~cdel.on
    /\ cpolls' = cpolls + 1
    /\ \E r \in DequeueResults :
          /\ rlist' = r.rlist
          /\ sqs' = r.sqs
          /\ cbatch' = IF r.err THEN <<>> ELSE r.msgs
          /\ clast' = [err |-> r.err, fault |-> r.fault, avail |-> MessageAvailable,
                        n |-> IF r.err THEN 0 ELSE Len(r.msgs)]
    /\ UNCHANGED <<backend, produced, wpc, batch, job, cancelled,
                   dispatchLog, resubmits, succeeded, workerAcks, timeouts,
                   werrs, cdel, hvars, dvars, rsvars>>

\* RedisQueue.Delete up to the answer of LRANGE: the index of the entry is
\* kept for the LSET that follows, and without an entry Delete returns nil
DeleteRead(messageID) ==
    LET index == RedisDeleteFind(rlist, messageID) IN
    cdel' = IF index = -1 THEN NoDelete ELSE [on |-> TRUE, index |-> index, id |-> messageID]

ClientDelete ==
    /\ cbatch # <<>>
    /\ ~cdel.on
    /\ cbatch' = Tail(cbatch)
    /\ IF backend = "redis"
       THEN /\ DeleteRead(Head(cbatch).msg.ID)
            /\ UNCHANGED <<rlist, sqs>>
       ELSE /\ sqs' = SQSDelete(sqs, Head(cbatch).msg.ID)
            /\ UNCHANGED <<rlist, cdel>>
    /\ UNCHANGED <<backend, produced, wpc, batch, job, cancelled,
                   dispatchLog, resubmits, succeeded, workerAcks, cpolls, timeouts, clast,
                   werrs, hvars, dvars, rsvars>>

\* a caller of Queue.Delete passes the ID of a job that may still be queued
\* (RedisQueue.Delete looks for the ID among the entries of the list); SQS
\* rejects an ID that is not a receipt handle
ClientDeleteQueued ==
    /\ cpolls < MaxClientPolls
    /\ ~cdel.on
    /\ cpolls' = cpolls + 1
    /\ \E k \in 1..produced :
          IF backend = "redis"
          THEN /\ DeleteRead(JobID(k))
               /\ UNCHANGED <<rlist, sqs>>
          ELSE /\ sqs' = SQSDelete(sqs, JobID(k))
               /\ UNCHANGED <<rlist, cdel>>
    /\ UNCHANGED <<backend, produced, wpc, batch, job, cancelled, dispatchLog, resubmits,
                   succeeded, workerAcks, cbatch, timeouts, clast, werrs, hvars, dvars, rsvars>>

\* RedisQueue.Delete from the answer of LRANGE on: LSET at the index found
ClientDeleteWrite ==
    /\ cdel.on
    /\ rlist' = LSet(rlist, cdel.index, JBad)
    /\ cdel' = NoDelete
    /\ UNCHANGED <<backend, sqs, produced, wpc, batch, job, cancelled, dispatchLog, resubmits,
                   succeeded, workerAcks, cbatch, cpolls, timeouts, clast, werrs, hvars, dvars, rsvars>>

Next ==
    \/ ProducerEnqueue
    \/ WorkerDequeue
    \/ WorkerReturn
    \/ WorkerStop
    \/ ProcessMessage
    \/ HandlerReturn
    \/ Resubmit
    \/ VisibilityTimeout

Spec == Init /\ [][Next]_vars

\* Start can call Dequeue and the call changes the state: ctx is live, and
\* the backend has an answer within the bounds of the model
CanDequeue ==
    /\ wpc = "poll"
    /\ ~StartSelectsDone(cancelled)
    /\ \E r \in DequeueResults :
          /\ r.err => werrs < MaxDequeueErrors
          /\ Invocations + Len(r.msgs) <= MaxInvoke
          /\ (r.err \/ r.msgs # <<>> \/ werrs # 0)

\* The worker under the fairness of its own goroutine: Start goes on polling
\* while it can (weak fairness of WorkerDequeue, written with its enabling
\* condition), a handler that was called returns, the sleep ends.  A backend
\* fails at most MaxDequeueErrors times in a row, so it answers again.
WorkerFairSpec ==
    /\ Spec
    /\ ([]<>(~CanDequeue) \/ []<><<WorkerDequeue>>_vars)
    /\ WF_vars(WorkerReturn)
    /\ WF_vars(ProcessMessage)
    /\ WF_vars(HandlerReturn)
    /\ WF_vars(Resubmit)

\* the transports alone, with a producer and the second consumer
QueueNext ==
    \/ ProducerEnqueue
    \/ ClientDequeue
    \/ ClientDelete
    \/ ClientDeleteQueued
    \/ ClientDeleteWrite
    \/ VisibilityTimeout

QueueSpec == Init /\ [][QueueNext]_vars

\* two consumers on one Redis list: the worker, and a second instance that
\* calls Dequeue on the same list
PoolInit == Init /\ backend = "redis"

PoolNext ==
    \/ ProducerEnqueue
    \/ WorkerDequeue
    \/ ProcessMessage
    \/ HandlerReturn
    \/ Resubmit
    \/ ClientDequeue

PoolSpec == PoolInit /\ [][PoolNext]_vars

(***************************************************************************)
(* The WebSocket connection hub.                                           *)
(***************************************************************************)
Clients == 1..MaxClients
PIDs == {"", "P", "Q"}

Frame(t, n) == [t |-> t, n |-> n]

\* mu is read-locked while a broadcast iterates; Lock() waits for that to end
ReadLocked == bc.pc = "iter"

\* Client.sendMessage: a non-blocking send, and close(c.send) when the buffer
\* is full; a send on a closed channel panics
SendMessage(c, f) ==
    IF chClosed[c] THEN [send |-> send, chClosed |-> chClosed, panic |-> TRUE]
    ELSE IF Len(send[c]) < SendCap
    THEN [send |-> [send EXCEPT ![c] = Append(@, f)], chClosed |-> chClosed,
          panic |-> FALSE]
    ELSE [send |-> send, chClosed |-> [chClosed EXCEPT ![c] = TRUE], panic |-> FALSE]

\* HandleWebSocket, lines 73-81: the client is created and registered
Connect ==
    /\ ~panicked
    /\ ~ReadLocked
    /\ \E c \in Clients :
          /\ cst[c] = "none"
          /\ \A d \in Clients : d < c => cst[d] # "none"
          /\ clients' = clients \cup {c}
          /\ cst' = [cst EXCEPT ![c] = "registered"]
    /\ UNCHANGED <<send, chClosed, projectID, rp, wp, connClosed, bc, nbcast, nframes,
                   panicked, wvars, dvars, rsvars>>

\* HandleWebSocket, lines 84-92: the welcome message, then the two pumps; a
\* panic of sendMessage here is recovered by net/http and ends the handler
Welcome ==
    /\ ~panicked
    /\ \E c \in Clients :
          /\ cst[c] = "registered"
          /\ LET r == SendMessage(c, Frame("welcome", 0)) IN
             /\ send' = r.send
             /\ chClosed' = r.chClosed
             /\ cst' = [cst EXCEPT ![c] = IF r.panic THEN "aborted" ELSE "open"]
             /\ rp' = [rp EXCEPT ![c] = IF r.panic THEN "idle" ELSE "run"]
             /\ wp' = [wp EXCEPT ![c] = IF r.panic THEN "idle" ELSE "run"]
    /\ UNCHANGED <<clients, projectID, connClosed, bc, nbcast, nframes, panicked, wvars, dvars, rsvars>>

\* the inbound text frames: [type, pid]; pid "bad" is a project_id that is
\* not a string
InboundFrames ==
    [type : {"subscribe_project"}, pid : {"P", "Q", "bad"}] \cup
    [type : {"unsubscribe_project", "ping", "other"}, pid : {""}]

\* Client.handleMessage: the new filter and the reply, if any
ReplyType(f) ==
    CASE f.type = "subscribe_project" -> IF f.pid = "bad" THEN "" ELSE "subscribed"
      [] f.type = "unsubscribe_project" -> "unsubscribed"
      [] f.type = "ping" -> "pong"
      [] OTHER -> "error"

NewFilter(old, f) ==
    CASE f.type = "subscribe_project" -> IF f.pid = "bad" THEN old ELSE f.pid
      [] f.type = "unsubscribe_project" -> ""
      [] OTHER -> old

\* the payloads of the inbound text frames: the JSON text of a Message, or
\* bytes that are no JSON
InboundTexts == {[j |-> "msg", type |-> f.type, pid |-> f.pid] : f \in InboundFrames}
                \cup {JBad}

\* a decoder that takes bytes that are no JSON for an empty Message
UnmarshalFrameLenient(t) ==
    [ok |-> TRUE,
     msg |-> IF t.j = "msg" THEN [type |-> t.type, pid |-> t.pid]
             ELSE [type |-> "", pid |-> ""]]

\* readPump, lines 114-118: json.Unmarshal of the payload into a Message
UnmarshalFrame(t) ==
    IF t.j = "msg" THEN [ok |-> TRUE, msg |-> [type |-> t.type, pid |-> t.pid]]
    ELSE [ok |-> FALSE, msg |-> [type |-> "", pid |-> ""]]

\* readPump of client c reads the text frame t and handles it (lines 103-120,
\* 169-207); a frame that does not decode is logged and skipped
HandleFrameOn(c, t) ==
    /\ ~panicked
    /\ nframes < MaxFrames
    /\ nframes' = nframes + 1
    /\ rp[c] = "run"
    /\ ~connClosed[c]
    /\ LET u == UnmarshalFrame(t)
           f == u.msg
       IN IF ~u.ok
          THEN UNCHANGED <<projectID, send, chClosed, panicked>>
          ELSE /\ projectID' = [projectID EXCEPT ![c] = NewFilter(@, f)]
               /\ IF ReplyType(f) = ""
                  THEN UNCHANGED <<send, chClosed, panicked>>
                  ELSE LET r == SendMessage(c, Frame(ReplyType(f), 0)) IN
                       /\ send' = r.send
                       /\ chClosed' = r.chClosed
                       /\ panicked' = r.panic
    /\ UNCHANGED <<clients, cst, rp, wp, connClosed, bc, nbcast, wvars, dvars, rsvars>>

HandleFrame == \E c \in Clients, t \in InboundTexts : HandleFrameOn(c, t)

\* readPump hits a read error or the read deadline and returns: its deferred
\* unregisterClient (lines 223-232) and conn.Close(); closing a closed channel
\* panics
ReadError ==
    /\ ~panicked
    /\ ~ReadLocked
    /\ \E c \in Clients :
          /\ rp[c] = "run"
          /\ rp' = [rp EXCEPT ![c] = "done"]
          /\ IF c \in clients
             THEN /\ clients' = clients \ {c}
                  /\ chClosed' = [chClosed EXCEPT ![c] = TRUE]
                  /\ panicked' = chClosed[c]
                  /\ connClosed' = IF chClosed[c] THEN connClosed
                                   ELSE [connClosed EXCEPT ![c] = TRUE]
             ELSE /\ connClosed' = [connClosed EXCEPT ![c] = TRUE]
                  /\ UNCHANGED <<clients, chClosed, panicked>>
    /\ UNCHANGED <<send, projectID, cst, wp, bc, nbcast, nframes, wvars, dvars, rsvars>>

\* a receive that takes the frame enqueued last
ChanRecvNewest(q) == [frame |-> q[Len(q)], rest |-> SubSeq(q, 1, Len(q) - 1)]

\* <-c.send on a buffer that holds a frame: the frame enqueued first
ChanRecv(q) == [frame |-> Head(q), rest |-> Tail(q)]

\* writePump takes one frame from the buffer and writes it, in the outer
\* select or in the loop over the frames queued behind it; a failed write
\* ends the pump, which closes the connection (lines 137-158)
WriteFrame ==
    /\ ~panicked
    /\ \E c \in Clients, ok \in BOOLEAN :
          /\ wp[c] = "run"
          /\ send[c] # <<>>
          /\ send' = [send EXCEPT ![c] = ChanRecv(@).rest]
          /\ wp' = [wp EXCEPT ![c] = IF ok THEN "run" ELSE "done"]
          /\ connClosed' = [connClosed EXCEPT ![c] = IF ok THEN @ ELSE TRUE]
    /\ UNCHANGED <<clients, chClosed, projectID, cst, rp, bc, nbcast, nframes, panicked,
                   wvars, dvars, rsvars>>

\* writePump finds the channel closed and drained: the close frame, return
WriteClose ==
    /\ ~panicked
    /\ \E c \in Clients :
          /\ wp[c] = "run"
          /\ send[c] = <<>>
          /\ chClosed[c]
          /\ wp' = [wp EXCEPT ![c] = "done"]
          /\ connClosed' = [connClosed EXCEPT ![c] = TRUE]
    /\ UNCHANGED <<clients, send, chClosed, projectID, cst, rp, bc, nbcast, nframes,
                   panicked, wvars, dvars, rsvars>>

\* writePump's ticker branch (lines 160-164): a ping; a failed write ends
\* the pump, which closes the connection
WritePing ==
    /\ ~panicked
    /\ \E c \in Clients, ok \in BOOLEAN :
          /\ wp[c] = "run"
          /\ wp' = [wp EXCEPT ![c] = IF ok THEN "run" ELSE "done"]
          /\ connClosed' = [connClosed EXCEPT ![c] = IF ok THEN @ ELSE TRUE]
    /\ UNCHANGED <<clients, send, chClosed, projectID, cst, rp, bc, nbcast, nframes,
                   panicked, wvars, dvars, rsvars>>

\* broadcastMessage, line 267: whether the message goes to the client
Matches(msgPID, clientPID) == msgPID = "" \/ clientPID = "" \/ clientPID = msgPID

\* the topics the hub subscribes to (Start, lines 51-61)
BusTopics == {"analysis_updates", "project_updates", "search_updates",
              "knowledge_graph_updates"}

\* a hub that uses the topic as the message type
TopicTypeSame(topic) == topic

\* Start, lines 51-61: the message type handleRedisMessages is started with
\* for each topic
TopicType(topic) ==
    CASE topic = "analysis_updates" -> "analysis_update"
      [] topic = "project_updates" -> "project_update"
      [] topic = "search_updates" -> "search_update"
      [] topic = "knowledge_graph_updates" -> "knowledge_graph_update"

\* the JSON text of an event whose project_id is x
BusObject(x) == [j |-> "obj", project_id |-> x]

\* the messages that arrive on the topics, as Publish wrote them (the JSON
\* text of the map) or as another publisher did: the progress of an analysis
\* of project P (cmd/worker/main.go:178), the update of the graph of project
\* Q (cmd/worker/main.go:318), an event whose project_id is a number, an
\* event without project_id, and bytes that are no JSON
BusEvents ==
    {[topic |-> "analysis_updates", payload |-> BusObject([t |-> "string", v |-> "P"])],
     [topic |-> "knowledge_graph_updates",
      payload |-> BusObject([t |-> "string", v |-> "Q"])],
     [topic |-> "project_updates", payload |-> BusObject([t |-> "number", v |-> "7"])],
     [topic |-> "search_updates", payload |-> BusObject([t |-> "absent", v |-> ""])],
     [topic |-> "analysis_updates", payload |-> JBad]}

\* handleRedisMessages, lines 236-240: json.Unmarshal into a map
UnmarshalEvent(t) ==
    IF t.j = "obj" THEN [ok |-> TRUE, data |-> t]
    ELSE [ok |-> FALSE, data |-> BusObject([t |-> "absent", v |-> ""])]

\* handleRedisMessages, lines 248-250: data["project_id"].(string)
EventProjectID(data) ==
    IF data.project_id.t = "string" THEN data.project_id.v ELSE ""

\* handleRedisMessages takes the message ev from the channel of its topic
\* (lines 235-253): a payload that does not decode is logged and skipped;
\* otherwise broadcastMessage begins (lines 257-264): RLock and the snapshot
\* the range walks
BusMessageOn(ev) ==
    /\ ~panicked
    /\ bc.pc \in {"idle", "done"}
    /\ nbcast < MaxBroadcasts
    /\ nbcast' = nbcast + 1
    /\ LET d == UnmarshalEvent(ev.payload) IN
       IF ~d.ok
       THEN UNCHANGED bc
       ELSE bc' = [pc |-> "iter", id |-> nbcast + 1, type |-> TopicType(ev.topic),
                   pid |-> EventProjectID(d.data), todo |-> clients, snap |-> clients,
                   visits |-> {}]
    /\ UNCHANGED <<clients, send, chClosed, projectID, cst, rp, wp, connClosed, nframes,
                   panicked, wvars, dvars, rsvars>>

BroadcastBegin == \E ev \in BusEvents : BusMessageOn(ev)

\* what the loop body does with client c: "skipped", "sent", "removed", "panic"
VisitOutcome(c) ==
    IF ~Matches(bc.pid, projectID[c]) THEN "skipped"
    ELSE IF chClosed[c] THEN "panic"
    ELSE IF Len(send[c]) < SendCap THEN "sent"
    ELSE "removed"

\* broadcastMessage, lines 266-276: one turn of the loop
BroadcastVisit ==
    /\ ~panicked
    /\ bc.pc = "iter"
    /\ \E c \in bc.todo :
          LET out == VisitOutcome(c)
              v == [c |-> c, filter |-> projectID[c], len |-> Len(send[c]),
                    closed |-> chClosed[c], out |-> out]
          IN /\ bc' = [bc EXCEPT !.todo = @ \ {c}, !.visits = @ \cup {v},
                                 !.pc = IF out = "panic" THEN "panicked" ELSE @]
             /\ send' = IF out = "sent"
                        THEN [send EXCEPT ![c] = Append(@, Frame("bcast", bc.id))]
                        ELSE send
             /\ clients' = IF out = "removed" THEN clients \ {c} ELSE clients
             /\ chClosed' = IF out = "removed" THEN [chClosed EXCEPT ![c] = TRUE]
                            ELSE chClosed
             /\ panicked' = (out = "panic")
    /\ UNCHANGED <<projectID, cst, rp, wp, connClosed, nbcast, nframes, wvars, dvars, rsvars>>

\* broadcastMessage returns: RUnlock
BroadcastEnd ==
    /\ ~panicked
    /\ bc.pc = "iter"
    /\ bc.todo = {}
    /\ bc' = [bc EXCEPT !.pc = "done"]
    /\ UNCHANGED <<clients, send, chClosed, projectID, cst, rp, wp, connClosed, nbcast,
                   nframes, panicked, wvars, dvars, rsvars>>

HubNext ==
    \/ Connect
    \/ Welcome
    \/ HandleFrame
    \/ ReadError
    \/ WriteFrame
    \/ WriteClose
    \/ WritePing
    \/ BroadcastBegin
    \/ BroadcastVisit
    \/ BroadcastEnd

\* the hub runs in the server process; the queue transport stays as constructed
HubSpecInit == Init /\ backend = "redis"

HubSpec == HubSpecInit /\ [][HubNext]_vars

(***************************************************************************)
(* The worker process and the server process side by side, each with its   *)
(* inbound traffic: a queue message on SQS whose payload is a string (the  *)
(* Redis transport carries Jobs only), the text frames of one connection,  *)
(* and the messages of the event bus.                                      *)
(***************************************************************************)
InboundInit == Init /\ backend = "sqs"

\* a producer enqueues the one queue message, with a string as payload
EnqueueString ==
    /\ produced = 0
    /\ ProducerEnqueue
    /\ sqs'[1].sentPayload.g = "str"

\* the first connection is made
ConnectFirst == cst[1] = "none" /\ Connect

InboundNext ==
    \/ EnqueueString
    \/ WorkerDequeue
    \/ ProcessMessage
    \/ HandlerReturn
    \/ Resubmit
    \/ ConnectFirst
    \/ Welcome
    \/ HandleFrame
    \/ BroadcastBegin
    \/ BroadcastVisit
    \/ BroadcastEnd

InboundSpec == InboundInit /\ [][InboundNext]_vars

(***************************************************************************)
(* DynamoPubSub: the poll-emulated event bus.  Time is counted in poll     *)
(* intervals (5 s).  The steps of the background task take no time: an     *)
(* interval ends only while the task is blocked (waiting for the ticker,   *)
(* for the query, or for a consumer).                                      *)
(***************************************************************************)
PublishedValues == {GoMapSS(1), GoInt(1)}

\* DynamoPubSub.Publish: the "data" attribute is the JSON text of the EventMessage
DynEventJSON(message) == [j |-> "event", data |-> Marshal(message)]

\* json.Unmarshal into an EventMessage: Data is decoded as an interface{}
DynEventData(t) == UnmarshalAny(t.data)

DynPublish ==
    /\ Cardinality({i \in DOMAIN dtable : dtable[i].ts >= 0}) < MaxEvents
    /\ \E m \in PublishedValues :
          dtable' = Append(dtable, [data |-> DynEventJSON(m), ts |-> dnow])
    /\ UNCHANGED <<dpc, ditems, dtick, dcancelled, dcancelAt, dcloses, delapsed, dnow,
                   drecv, dgot, dgotAtClose, dqfailed, wvars, hvars, rsvars>>

\* the cases of the select around the send that can proceed (lines 199-203)
SendSelectBlockingSend(ctxDone, receiverReady) ==
    IF receiverReady THEN {"send"} ELSE {}

SendSelectCases(ctxDone, receiverReady) ==
    (IF receiverReady THEN {"send"} ELSE {}) \cup (IF ctxDone THEN {"done"} ELSE {})

\* the cases of the select of the loop that can proceed (lines 168-171)
LoopSelectCases == (IF dcancelled THEN {"done"} ELSE {}) \cup
                   (IF dtick THEN {"tick"} ELSE {})

\* the background task cannot take a step
DynBlocked ==
    \/ dpc = "select" /\ LoopSelectCases = {}
    \/ dpc = "query" /\ ~dcancelled
    \/ dpc = "send" /\ SendSelectCases(dcancelled, drecv = "recv") = {}

\* a poll interval ends: the ticker fires (ticker.C holds one tick at most)
DynTick ==
    /\ DynBlocked
    /\ dnow < MaxNow
    /\ dnow' = dnow + 1
    /\ dtick' = TRUE
    /\ delapsed' = IF dcancelled THEN delapsed + 1 ELSE delapsed
    /\ UNCHANGED <<dpc, ditems, dcancelled, dcancelAt, dcloses, dtable, drecv, dgot,
                   dgotAtClose, dqfailed, wvars, hvars, rsvars>>

\* the subscriber cancels ctx
DynCancel ==
    /\ ~dcancelled
    /\ dcancelled' = TRUE
    /\ dcancelAt' = dpc
    /\ UNCHANGED <<dpc, ditems, dtick, dcloses, delapsed, dnow, dtable, drecv, dgot,
                   dgotAtClose, dqfailed, wvars, hvars, rsvars>>

\* the task returns: the deferred close(ch)
DynReturn ==
    /\ dpc' = "closed"
    /\ dcloses' = dcloses + 1
    /\ dgotAtClose' = Len(dgot)
    /\ ditems' = <<>>

\* the select of the loop (lines 168-171)
DynSelect ==
    /\ dpc = "select"
    /\ \E case \in LoopSelectCases :
          IF case = "done"
          THEN DynReturn /\ UNCHANGED dtick
          ELSE /\ dpc' = "query"
               /\ dtick' = FALSE
               /\ UNCHANGED <<ditems, dcloses, dgotAtClose>>
    /\ UNCHANGED <<dcancelled, dcancelAt, delapsed, dnow, dtable, drecv, dgot, dqfailed,
                   wvars, hvars, rsvars>>

\* the indices of the events a query made now can return: "timestamp > since"
\* takes every event of this interval, and of the interval before those
\* that are less than 5 s old
DynQueryResults ==
    LET cur == {i \in DOMAIN dtable : dtable[i].ts = dnow}
        prev == {i \in DOMAIN dtable : dtable[i].ts = dnow - 1}
    IN {cur \cup old : old \in SUBSET prev}

\* Query returns (lines 173-188): an error, or the items
DynQueryReturn ==
    /\ dpc = "query"
    /\ \/ /\ dpc' = "select"
          /\ ditems' = <<>>
          /\ dqfailed' = TRUE
       \/ /\ \E S \in DynQueryResults :
                LET items == [n \in 1..Cardinality(S) |-> dtable[SortedSeq(S)[n]].data]
                IN /\ ditems' = items
                   /\ dpc' = IF items = <<>> THEN "select" ELSE "send"
          /\ UNCHANGED dqfailed
    /\ UNCHANGED <<dtick, dcancelled, dcancelAt, dcloses, delapsed, dnow, dtable, drecv,
                   dgot, dgotAtClose, wvars, hvars, rsvars>>

\* the select around the send of one item (lines 194-203)
DynSend ==
    /\ dpc = "send"
    /\ \E case \in SendSelectCases(dcancelled, drecv = "recv") :
          IF case = "done"
          THEN DynReturn /\ UNCHANGED <<dgot, drecv>>
          ELSE /\ dgot' = Append(dgot, DynEventData(Head(ditems)))
               /\ drecv' = "idle"
               /\ ditems' = Tail(ditems)
               /\ dpc' = IF Tail(ditems) = <<>> THEN "select" ELSE "send"
               /\ UNCHANGED <<dcloses, dgotAtClose>>
    /\ UNCHANGED <<dtick, dcancelled, dcancelAt, delapsed, dnow, dtable, dqfailed, wvars,
                   hvars, rsvars>>

\* the consumer starts a receive from the channel
DynConsumerReceive ==
    /\ drecv = "idle"
    /\ dpc # "closed"
    /\ drecv' = "recv"
    /\ UNCHANGED <<dpc, ditems, dtick, dcancelled, dcancelAt, dcloses, delapsed, dnow,
                   dtable, dgot, dgotAtClose, dqfailed, wvars, hvars, rsvars>>

\* the consumer's receive finds the channel closed
DynConsumerEnd ==
    /\ drecv \in {"idle", "recv"}
    /\ dpc = "closed"
    /\ drecv' = "ended"
    /\ UNCHANGED <<dpc, ditems, dtick, dcancelled, dcancelAt, dcloses, delapsed, dnow,
                   dtable, dgot, dgotAtClose, dqfailed, wvars, hvars, rsvars>>

\* the consumer stops receiving
DynConsumerStop ==
    /\ drecv = "idle"
    /\ drecv' = "gone"
    /\ UNCHANGED <<dpc, ditems, dtick, dcancelled, dcancelAt, dcloses, delapsed, dnow,
                   dtable, dgot, dgotAtClose, dqfailed, wvars, hvars, rsvars>>

DynNext ==
    \/ DynPublish
    \/ DynTick
    \/ DynCancel
    \/ DynSelect
    \/ DynQueryReturn
    \/ DynSend
    \/ DynConsumerReceive
    \/ DynConsumerEnd
    \/ DynConsumerStop

\* the events table when Subscribe is called: empty, or holding an event
\* published in the poll interval before the call (Publish("t", 42))
PrePublished == {<<>>, <<[data |-> DynEventJSON(GoInt(42)), ts |-> -1]>>}

DynSpecInit ==
    /\ WorkerInitWith("redis")
    /\ HubInit
    /\ RedisSubInit
    /\ \E tbl \in PrePublished : DynInitWith(tbl)

DynSpec == DynSpecInit /\ [][DynNext]_vars

(***************************************************************************)
(* RedisPubSub: the push-based event bus.  pubsub.Channel() is the channel *)
(* of the go-redis subscription; it is closed when the client is closed.   *)
(***************************************************************************)
\* the payloads that arrive on the Redis channel: Publish writes the JSON
\* text of the message; another publisher can write any text
RedisPayloads == {Marshal(m) : m \in PublishedValues} \cup {JBad}

\* a message is published and reaches the subscription
RedisPublish ==
    /\ ~rupClosed
    /\ rpublished < MaxPublished
    /\ rpublished' = rpublished + 1
    /\ \E t \in RedisPayloads : rup' = Append(rup, t)
    /\ UNCHANGED <<rpc, rupClosed, rcur, rcancelled, rcloses, rrecv, rgot, wvars, hvars,
                   dvars>>

\* RedisPubSub.Close: the client is closed, which ends the subscription
RedisPubSubClose ==
    /\ ~rupClosed
    /\ rupClosed' = TRUE
    /\ UNCHANGED <<rpc, rup, rcur, rcancelled, rcloses, rpublished, rrecv, rgot, wvars,
                   hvars, dvars>>

\* the subscriber cancels ctx
RedisSubCancel ==
    /\ ~rcancelled
    /\ rcancelled' = TRUE
    /\ UNCHANGED <<rpc, rup, rupClosed, rcur, rcloses, rpublished, rrecv, rgot, wvars,
                   hvars, dvars>>

\* the range takes the next message (lines 137-141): a payload that is not
\* JSON is skipped
RedisSubNext ==
    /\ rpc = "range"
    /\ rup # <<>>
    /\ rup' = Tail(rup)
    /\ IF Head(rup) = JBad
       THEN UNCHANGED <<rpc, rcur>>
       ELSE /\ rpc' = "send"
            /\ rcur' = UnmarshalAny(Head(rup))
    /\ UNCHANGED <<rupClosed, rcancelled, rcloses, rpublished, rrecv, rgot, wvars, hvars,
                   dvars>>

\* ch <- data (line 142): waits for the consumer
RedisSubSend ==
    /\ rpc = "send"
    /\ rrecv = "recv"
    /\ rgot' = Append(rgot, rcur)
    /\ rrecv' = "idle"
    /\ rcur' = GoNil
    /\ rpc' = "range"
    /\ UNCHANGED <<rup, rupClosed, rcancelled, rcloses, rpublished, wvars, hvars, dvars>>

\* the range ends because pubsub.Channel() is closed and drained: the
\* deferred close(ch)
RedisSubReturn ==
    /\ rpc = "range"
    /\ rup = <<>>
    /\ rupClosed
    /\ rpc' = "closed"
    /\ rcloses' = rcloses + 1
    /\ UNCHANGED <<rup, rupClosed, rcur, rcancelled, rpublished, rrecv, rgot, wvars,
                   hvars, dvars>>

RedisConsumerReceive ==
    /\ rrecv = "idle"
    /\ rpc # "closed"
    /\ rrecv' = "recv"
    /\ UNCHANGED <<rpc, rup, rupClosed, rcur, rcancelled, rcloses, rpublished, rgot,
                   wvars, hvars, dvars>>

RedisConsumerEnd ==
    /\ rrecv \in {"idle", "recv"}
    /\ rpc = "closed"
    /\ rrecv' = "ended"
    /\ UNCHANGED <<rpc, rup, rupClosed, rcur, rcancelled, rcloses, rpublished, rgot,
                   wvars, hvars, dvars>>

RedisConsumerStop ==
    /\ rrecv = "idle"
    /\ rrecv' = "gone"
    /\ UNCHANGED <<rpc, rup, rupClosed, rcur, rcancelled, rcloses, rpublished, rgot,
                   wvars, hvars, dvars>>

RedisSubStep ==
    \/ RedisPublish
    \/ RedisPubSubClose
    \/ RedisSubCancel
    \/ RedisSubNext
    \/ RedisSubSend
    \/ RedisSubReturn
    \/ RedisConsumerReceive
    \/ RedisConsumerEnd
    \/ RedisConsumerStop

RedisSubSpecInit == Init /\ backend = "redis"

RedisSubSpec == RedisSubSpecInit /\ [][RedisSubStep]_vars

\* the Go scheduler runs the background task whenever it can take a step
RedisSubFairSpec ==
    /\ RedisSubSpec
    /\ WF_vars(RedisSubNext)
    /\ WF_vars(RedisSubSend)
    /\ WF_vars(RedisSubReturn)

(***************************************************************************)
(* Claims about the worker and the queue transports.                       *)
(***************************************************************************)
\* the root jobs whose handler returns an error on every invocation
FailingRoots == {k \in Roots : dispatchLog[k] # <<>> /\ dispatchLog[k][1].type = "t_fail"}

\* C1: a job whose handler always fails is handled exactly MaxRetries (3 when
\* unset) times over the original message and its re-submitted copies, and
\* is not enqueued again after the last failure.  Stated without redelivery
\* (no visibility timeout has expired), as bounds on the two counts.
C1_HandlerInvokedExactlyN ==
    timeouts = 0 =>
        \A k \in FailingRoots :
            /\ Len(dispatchLog[k]) <= DefaultMaxRetries
            /\ resubmits[k] <= DefaultMaxRetries - 1

\* C2: over the successive dispatch attempts of one job, Attempts starts at 1
\* and is one greater at each attempt than at the one before; a job whose
\* Attempts reached MaxRetries is not enqueued again.
C2_AttemptsCountDispatches ==
    timeouts = 0 =>
        \A k \in Roots :
            /\ \A i \in DOMAIN dispatchLog[k] : dispatchLog[k][i].att = i
            /\ resubmits[k] <= DefaultMaxRetries - 1

\* C3: when a handler has returned success for a message, Delete has been
\* called with that message's ID by the time the worker turns to the next
\* message.
C3_AckOnSuccess ==
    wpc \in {"poll", "process", "stopped"} => succeeded \subseteq workerAcks

\* C10: on SQS, a message that Dequeue returns for Enqueue(t, p) has Type t, a
\* Payload whose JSON is the JSON of p, and as ID the receipt handle with
\* which Delete deletes that message.
C10_SQSRoundTrip ==
    backend = "sqs" =>
        \A n \in DOMAIN cbatch :
            LET e == cbatch[n]
                m == sqs[e.idx]
            IN /\ e.msg.Type = m.sentType
               /\ Marshal(e.msg.Payload) = Marshal(m.sentPayload)
               /\ UnmarshalAny(Marshal(m.sentPayload)) = e.msg.Payload
               /\ e.msg.ID = ReceiptHandle(e.idx, m.rc)
               /\ SQSDelete(sqs, e.msg.ID)[e.idx].st = "deleted"

\* C10 witness: the integration test's case, a map[string]string payload sent
\* under one type and returned by Dequeue
C10_Witness ==
    /\ backend = "sqs"
    /\ cbatch # <<>>
    /\ sqs[cbatch[1].idx].sentPayload = GoMapSS(1)
    /\ sqs[cbatch[1].idx].sentType = "t_ok"
    /\ cbatch[1].msg.Payload = GoMap(1)

(***************************************************************************)
(* Claims about the connection hub.                                        *)
(***************************************************************************)
\* the broadcast has ended: it returned, or the panic ended the process
BroadcastOver == bc.pc \in {"done", "panicked"}

\* the registered connections the ended broadcast never reached, although
\* their buffer is open and has room
Unreached == {c \in bc.todo \cap clients : ~chClosed[c] /\ Len(send[c]) < SendCap}

\* C4: a broadcast whose ProjectID is P (non-empty) is enqueued on every
\* registered connection whose filter is P or empty and whose open buffer
\* has room, and on no connection whose filter is another project
C4_FilteredBroadcast ==
    bc.pid # "" =>
       /\ \A v \in bc.visits :
             /\ (v.filter \in {bc.pid, ""} /\ ~v.closed /\ v.len < SendCap)
                   => v.out = "sent"
             /\ v.filter \notin {bc.pid, ""} => v.out = "skipped"
       /\ BroadcastOver => \A c \in Unreached : projectID[c] \notin {bc.pid, ""}

\* C5: a broadcast whose ProjectID is empty is enqueued on every connection
\* of the registry whose open buffer has room, whatever its filter
C5_UnfilteredBroadcast ==
    bc.pid = "" =>
       /\ \A v \in bc.visits : (~v.closed /\ v.len < SendCap) => v.out = "sent"
       /\ BroadcastOver => Unreached = {}

\* C6: a broadcast that reaches a connection it targets whose buffer is at
\* capacity removes the connection from the registry and closes its buffer,
\* and no error reaches the caller
C6_OverflowRemoves ==
    \A v \in bc.visits :
       (Matches(bc.pid, v.filter) /\ v.len = SendCap) =>
           /\ v.out = "removed"
           /\ v.c \notin clients
           /\ chClosed[v.c]
           /\ ~panicked

\* C7: a broadcast makes one attempt per connection and returns; in a
\* broadcast where one connection overflowed, every other matching
\* connection with free space has the message when the broadcast is over
C7_BroadcastTerminates ==
    /\ bc.pc # "panicked"
    /\ (BroadcastOver /\ \E v \in bc.visits : Matches(bc.pid, v.filter) /\ v.len = SendCap)
          => /\ \A v \in bc.visits :
                   (Matches(bc.pid, v.filter) /\ ~v.closed /\ v.len < SendCap)
                      => v.out = "sent"
             /\ \A c \in Unreached : ~Matches(bc.pid, projectID[c])

(***************************************************************************)
(* Claims about the event bus subscriptions.                               *)
(***************************************************************************)
\* C8: the channel of DynamoPubSub.Subscribe is closed at most once and only
\* after ctx is cancelled; once ctx is cancelled it is closed before a
\* second poll interval ends, wherever the task was; the consumer receives
\* nothing after the close
C8_DynSubscribeClose ==
    /\ dcloses <= 1
    /\ dcloses > 0 => dcancelled /\ dpc = "closed"
    /\ (dcancelled /\ dcloses = 0) => delapsed <= 1
    /\ dcloses > 0 => Len(dgot) = dgotAtClose

C8_Witness ==
    /\ dcloses = 1
    /\ dcancelAt = "send"
    /\ drecv = "gone"
    /\ dgot # <<>>

\* C9: the channel of RedisPubSub.Subscribe is not closed while ctx is live
\* (unless the bus itself was closed), and once ctx is cancelled it is
\* eventually closed
C9_RedisSubscribeClose ==
    /\ [](rcloses > 0 => (rcancelled \/ rupClosed))
    /\ (rcancelled ~> rcloses > 0)

\* the values the consumer of the DynamoDB subscription has received
DynReceived == {dgot[n] : n \in DOMAIN dgot}

\* the first poll after Subscribe is over: its tick was taken, its query
\* answered and its items sent
DynFirstPollDone == dnow >= 1 /\ ~dtick /\ dpc = "select" /\ ~dqfailed

\* C11: an event published within the poll window before Subscribe is
\* delivered on the channel once the first poll after subscribing is over
C11_LateSubscriberReceives ==
    DynFirstPollDone =>
        \A i \in DOMAIN dtable :
            dtable[i].ts < 0 => DynEventData(dtable[i].data) \in DynReceived

\* C12: Dequeue returns an error only when the backend call faults, and an
\* empty result without error when no message was there to take
C12_DequeueErrorOnlyOnFault ==
    /\ clast.err => clast.fault
    /\ (~clast.fault /\ ~clast.avail) => (~clast.err /\ clast.n = 0)

\* C13: every Enqueue a producer makes on a healthy backend, whatever the
\* JSON-serialisable payload, adds exactly one message, and that message is
\* one a later Dequeue returns with the Type that was passed
C13_EnqueueAddsOneMessage ==
    [][produced' = produced + 1 =>
          IF backend = "redis"
          THEN /\ Len(rlist') = Len(rlist) + 1
               /\ RedisDequeueMsg(rlist'[Len(rlist')]).ok
          ELSE /\ Len(sqs') = Len(sqs) + 1
               /\ LET i == Len(sqs')
                      r == SQSDequeueMsg(sqs'[i], ReceiptHandle(i, 1))
                  IN r.ok /\ r.msg.Type = sqs'[i].sentType]_vars

\* the worker takes a step of processMessage on the message at the head of
\* its batch
ProcessStep == wpc = "process" /\ (wpc' # wpc \/ batch' # batch \/ dispatchLog' # dispatchLog)

\* C14: a message whose Type has no registered handler is dropped: the step
\* invokes no handler, calls no Enqueue (the queue is as before), and the
\* worker is at the next message of the batch or polls again
C14_UnknownTypeDropped ==
    [][(ProcessStep /\ Head(batch).msg.Type \notin Handlers) =>
          /\ dispatchLog' = dispatchLog
          /\ resubmits' = resubmits
          /\ rlist' = rlist
          /\ sqs' = sqs
          /\ batch' = Tail(batch)
          /\ wpc' = IF Tail(batch) = <<>> THEN "poll" ELSE "process"]_vars

C14_Witness ==
    /\ backend = "sqs"
    /\ timeouts = 0
    /\ Len(sqs) = 2
    /\ sqs[1].sentType = "t_none"
    /\ sqs[1].sentPayload.g = "map"
    /\ sqs[1].st = "inflight"
    /\ dispatchLog[1] = <<>>
    /\ resubmits[1] = 0
    /\ wpc = "handler"
    /\ job.root = 2

\* C15: each message of a batch is taken once, in order, and makes one Job
\* dispatch exactly when its payload is well-formed and its Type has a
\* handler; no dispatch happens outside such a step, and the worker leaves no
\* message of a batch behind when it polls again or returns
C15_OneDispatchPerMessage ==
    /\ [][ProcessStep =>
             LET m == Head(batch)
                 n == IF JobOfMessage(m.msg).ok /\ m.msg.Type \in Handlers THEN 1 ELSE 0
             IN /\ batch' = Tail(batch)
                /\ Len(dispatchLog'[m.root]) = Len(dispatchLog[m.root]) + n
                /\ \A k \in Roots \ {m.root} : dispatchLog'[k] = dispatchLog[k]]_vars
    /\ [][wpc # "process" => dispatchLog' = dispatchLog]_vars
    /\ [](wpc \in {"poll", "stopped"} => batch = <<>>)

C15_Witness ==
    /\ backend = "sqs"
    /\ timeouts = 0
    /\ Len(sqs) = 2
    /\ sqs[1].rc = 1
    /\ sqs[2].rc = 1
    /\ sqs[1].sentType = "t_ok"
    /\ Len(dispatchLog[1]) = 1
    /\ Len(dispatchLog[2]) = 1
    /\ wpc = "handler"
    /\ job.root = 2
    /\ batch = <<>>

\* C16: while the registry lock is held in shared mode (a broadcast is
\* iterating), the registry is not modified
C16_ReadLockOnlyReads ==
    [][ReadLocked => clients' = clients]_vars

\* C17: handling an inbound text frame enqueues one reply on the buffer of
\* the connection and leaves the connection open: no buffer is closed and the
\* process goes on (a subscribe_project frame without a project id, which
\* changes nothing, is left aside)
C17_FrameGetsOneReply ==
    [][nframes' = nframes + 1 =>
          /\ ~panicked'
          /\ chClosed' = chClosed
          /\ \/ send' = send /\ projectID' = projectID
             \/ \E c \in Clients :
                   /\ Len(send'[c]) = Len(send[c]) + 1
                   /\ send'[c][Len(send'[c])].t \in {"subscribed", "unsubscribed",
                                                      "pong", "error"}
                   /\ \A d \in Clients \ {c} : send'[d] = send[d]]_vars

\* C18: once Stop has cancelled the context the worker starts no handler
\* invocation, also not for the messages of a batch Dequeue had returned
\* before
C18_NoDispatchAfterStop ==
    [][cancelled => dispatchLog' = dispatchLog]_vars

\* the worker did not take a message from the queue in this step
NoDequeueStep ==
    /\ Len(rlist') >= Len(rlist)
    /\ \A i \in DOMAIN sqs : sqs'[i].rc = sqs[i].rc

\* the queue after the step holds the job again, with Attempts one more and
\* its own Type, as one new message, or is as before (the Enqueue failed)
ResubmittedOnce ==
    LET j == job.j IN
    IF backend = "redis"
    THEN \/ rlist' = rlist
         \/ /\ Len(rlist') = Len(rlist) + 1
            /\ \A i \in DOMAIN rlist : rlist'[i] = rlist[i]
            /\ LET e == rlist'[Len(rlist')].raw
               IN e.id = j.ID /\ e.type = j.Type /\ e.attempts = j.Attempts + 1
    ELSE \/ sqs' = sqs
         \/ /\ Len(sqs') = Len(sqs) + 1
            /\ \A i \in DOMAIN sqs : sqs'[i] = sqs[i]
            /\ LET e == sqs'[Len(sqs')]
               IN /\ e.sentType = j.Type
                  /\ e.sentPayload.g = "job"
                  /\ e.sentPayload.job.Type = j.Type
                  /\ e.sentPayload.job.Attempts = j.Attempts + 1

\* C19: after a failure with Attempts < MaxRetries the worker sleeps
\* Attempts * Attempts seconds; while it sleeps it invokes no handler and takes
\* nothing from the queue; when it wakes up it calls Enqueue once, with the
\* job's Type and Attempts one more
C19_BackoffThenResubmit ==
    /\ [](wpc = "backoff" =>
             /\ job.j.Attempts < job.j.MaxRetries
             /\ job.sleep = job.j.Attempts * job.j.Attempts)
    /\ [][wpc = "backoff" =>
             /\ dispatchLog' = dispatchLog
             /\ IF wpc' = "backoff"
                THEN resubmits' = resubmits /\ job' = job /\ batch' = batch /\ NoDequeueStep
                ELSE /\ resubmits' = [resubmits EXCEPT ![job.root] = @ + 1]
                     /\ ResubmittedOnce]_vars

C19_Witness ==
    /\ backend = "redis"
    /\ wpc = "poll"
    /\ \E i \in DOMAIN rlist :
          /\ rlist[i].raw.j = "jobobj"
          /\ rlist[i].raw.attempts = 2
          /\ rlist[i].raw.type = "t_fail"
          /\ resubmits[rlist[i].root] = 1
          /\ Len(dispatchLog[rlist[i].root]) = 1

WorkerDequeueStep ==
    \/ Len(rlist') < Len(rlist)
    \/ \E i \in DOMAIN sqs : sqs'[i].rc > sqs[i].rc

\* a handler invocation is in progress
HandlerInProgress == wpc = "handler"

\* C21: one worker has at most one handler invocation in progress; the
\* messages of a batch are dispatched one after another in the order Dequeue
\* returned them; Dequeue is not called again before the whole batch,
\* backoff sleeps included, is finished
C21_SequentialDispatch ==
    /\ [][dispatchLog' # dispatchLog =>
             /\ ~HandlerInProgress
             /\ wpc = "process"
             /\ HandlerInProgress'
             /\ job'.j.ID = Head(batch).msg.ID
             /\ job'.root = Head(batch).root
             /\ batch' = Tail(batch)
             /\ Invocations' = Invocations + 1]_vars
    /\ [][WorkerDequeueStep =>
             /\ wpc = "poll"
             /\ batch = <<>>
             /\ job.root = 0]_vars
    /\ [](wpc \in {"handler", "backoff"} <=> job.root # 0)

C21_Witness ==
    /\ backend = "sqs"
    /\ timeouts = 0
    /\ Len(sqs) = 3
    /\ sqs[1].rc = 1
    /\ sqs[2].rc = 1
    /\ sqs[3].rc = 0
    /\ resubmits[1] = 1
    /\ Len(dispatchLog[1]) = 1
    /\ HandlerInProgress
    /\ job.root = 2
    /\ batch = <<>>

\* C23: after a Dequeue call that failed the worker waits before it calls
\* Dequeue again: no two Dequeue calls fail one after the other with nothing
\* in between
C23_DelayAfterDequeueError ==
    werrs <= 1

\* the queue holds a message of root job k whose Type has a handler
QueuedForHandler(k) ==
    IF backend = "redis"
    THEN \E i \in DOMAIN rlist :
            /\ rlist[i].root = k
            /\ rlist[i].raw.j = "jobobj"
            /\ rlist[i].raw.type \in Handlers
    ELSE \E i \in DOMAIN sqs :
            /\ sqs[i].root = k
            /\ sqs[i].st = "visible"
            /\ sqs[i].sentType \in Handlers

\* the queue holds such a message, and its payload is not a string that is
\* no JSON object
QueuedWellFormed(k) ==
    /\ QueuedForHandler(k)
    /\ backend = "sqs" =>
          \E i \in DOMAIN sqs :
             /\ sqs[i].root = k
             /\ sqs[i].st = "visible"
             /\ sqs[i].sentType \in Handlers
             /\ sqs[i].sentPayload.g = "str" => UnmarshalMap(sqs[i].sentPayload.s).ok

\* the running worker leaves its loop only through Stop, and a poll that
\* fails or returns nothing invokes no handler
PollingGoesOn ==
    /\ [](wpc = "stopped" => cancelled)
    /\ [][(wpc = "poll" /\ ~cancelled) =>
             /\ wpc' \in {"poll", "process"}
             /\ wpc' = "process" => batch' # <<>>
             /\ dispatchLog' = dispatchLog]_vars

\* the worker is stopped or the model's bound on the invocations is reached
WorkerEnds == cancelled \/ Invocations >= MaxInvoke

\* C22 as stated: a Dequeue error or an empty poll does not stop the running
\* worker and invokes no handler, and every message enqueued for a
\* registered type is eventually dispatched to its handler
C22_EveryMessageDispatched ==
    /\ PollingGoesOn
    /\ \A k \in Roots : QueuedForHandler(k) ~> (dispatchLog[k] # <<>> \/ WorkerEnds)

\* C22: a Dequeue error or an empty poll does not stop the running worker and
\* invokes no handler, and every message enqueued for a registered type
\* whose payload is not a string that fails to parse as a JSON object is
\* eventually dispatched to its handler
C22_LivenessUnderPolling ==
    /\ PollingGoesOn
    /\ \A k \in Roots : QueuedWellFormed(k) ~> (dispatchLog[k] # <<>> \/ WorkerEnds)

C22_Witness ==
    /\ backend = "sqs"
    /\ ~cancelled
    /\ werrs = 0
    /\ Len(sqs) = 2
    /\ sqs[1].sentPayload.g = "str"
    /\ sqs[1].sentType = "t_ok"
    /\ sqs[1].rc = 1
    /\ dispatchLog[1] = <<>>
    /\ sqs[2].sentType = "t_ok"
    /\ sqs[2].rc = 1
    /\ Len(dispatchLog[2]) = 1
    /\ wpc = "poll"

\* C24: after Stop, Start returns, given that the handler in flight
\* returns; once Start has returned the worker calls neither Dequeue nor
\* Enqueue nor a handler
C24_StopReturns ==
    /\ cancelled ~> wpc = "stopped"
    /\ [][wpc = "stopped" =>
             /\ wpc' = "stopped"
             /\ dispatchLog' = dispatchLog
             /\ resubmits' = resubmits
             /\ batch' = batch
             /\ ~WorkerDequeueStep]_vars

C24_Witness ==
    /\ wpc = "stopped"
    /\ werrs >= 1
    /\ succeeded # {}
    /\ MessageAvailable

\* the events of the table published since Subscribe
DynPublishedSince == {i \in DOMAIN dtable : dtable[i].ts >= 0}

\* the polls that can return event i are over: the poll of the interval
\* after its publication was made and has sent its items, and no tick waits
DynPollsOver(i) == dnow >= dtable[i].ts + 1 /\ dpc = "select" /\ ~dtick

\* C25: an event published while the subscription is active and its consumer
\* keeps receiving has been delivered on the channel when the polls that
\* follow its publication are over
C25_PublishedEventDelivered ==
    (~dcancelled /\ ~dqfailed /\ drecv # "gone") =>
        \A i \in DynPublishedSince :
            DynPollsOver(i) => DynEventData(dtable[i].data) \in DynReceived

\* how often value v was delivered on the channel
DynDeliveries(v) == Cardinality({n \in DOMAIN dgot : dgot[n] = v})

\* how many events carrying value v were published
DynPublications(v) ==
    Cardinality({i \in DOMAIN dtable : DynEventData(dtable[i].data) = v})

\* C26: no event is delivered twice on the channel of one subscription: a
\* value is delivered at most as often as events carrying it were published
C26_NoDuplicateDelivery ==
    \A n \in DOMAIN dgot : DynDeliveries(dgot[n]) <= DynPublications(dgot[n])

\* C27: on the Redis list with one consumer, every Enqueue, the worker's
\* re-submission included, places its entry behind all pending entries, and
\* every Dequeue takes the oldest pending entry and returns it alone
C27_RedisFIFO ==
    [][backend = "redis" =>
          /\ Len(rlist') > Len(rlist) =>
                /\ Len(rlist') = Len(rlist) + 1
                /\ \A i \in DOMAIN rlist : rlist'[i] = rlist[i]
          /\ Len(rlist') < Len(rlist) =>
                /\ rlist' = Tail(rlist)
                /\ Len(batch') = 1
                /\ batch'[1].root = Head(rlist).root
                /\ batch'[1].msg.ID = Head(rlist).raw.id
          /\ Len(rlist') = Len(rlist) => rlist' = rlist
          /\ Len(batch') <= 1]_vars

C27_Witness ==
    /\ backend = "redis"
    /\ HandlerInProgress
    /\ job.root = 2
    /\ Len(dispatchLog[1]) = 1
    /\ resubmits[1] = 1
    /\ Len(rlist) = 1
    /\ rlist[1].root = 1
    /\ rlist[1].raw.attempts = 2

\* the teardown of connection c has begun: one of its loops has ended
TeardownBegun(c) == rp[c] = "done" \/ wp[c] = "done"

\* connection c is torn down: out of the registry, buffer closed, both loops
\* ended
TornDown(c) ==
    /\ c \notin clients
    /\ chClosed[c]
    /\ rp[c] = "done"
    /\ wp[c] = "done"

\* a loop of connection c is still running and has a step to take: the read
\* loop returns on the error of a closed connection, the write loop on the
\* closed buffer, on a failed write or at the next ping
LoopCanEnd(c) == ~panicked /\ (rp[c] = "run" \/ wp[c] = "run")

\* C28: when the read loop of a connection has hit a read error or the write
\* loop a write failure, the connection gets out of the registry, its buffer
\* is closed and both loops end: the process is alive, and the teardown is
\* complete or a loop of the connection still has its last step to take
C28_TeardownCompletes ==
    \A c \in Clients :
        TeardownBegun(c) => (~panicked /\ (TornDown(c) \/ LoopCanEnd(c)))

\* the message type of the events of each topic
TopicTypes ==
    {<<"analysis_updates", "analysis_update">>, <<"project_updates", "project_update">>,
     <<"search_updates", "search_update">>,
     <<"knowledge_graph_updates", "knowledge_graph_update">>}

\* C30: an event of a topic is broadcast as a message of the type of that
\* topic, whose ProjectID is the string project_id of the event or empty; the
\* message of an event for project P is enqueued on every registered
\* connection whose filter is P or empty (and whose open buffer has room) and
\* on no other connection
C30_EventBroadcast ==
    /\ [][\A ev \in BusEvents :
             (BusMessageOn(ev) /\ ev.payload.j = "obj") =>
                /\ bc'.pc = "iter"
                /\ <<ev.topic, bc'.type>> \in TopicTypes
                /\ bc'.pid = IF ev.payload.project_id.t = "string"
                             THEN ev.payload.project_id.v ELSE ""
                /\ bc'.todo = clients]_vars
    /\ [](bc.pid # "" =>
             /\ \A v \in bc.visits :
                   /\ v.out = "sent" => v.filter \in {bc.pid, ""}
                   /\ (v.filter \in {bc.pid, ""} /\ ~v.closed /\ v.len < SendCap)
                         => v.out = "sent"
             /\ BroadcastOver =>
                   \A c \in Unreached : projectID[c] \notin {bc.pid, ""})

\* C29: a malformed inbound payload drops that one message and nothing else
\* happens: a queue message whose string payload is no JSON is not
\* dispatched and not enqueued again, and the worker goes on; a text frame
\* and a bus message that are no JSON give no reply and no broadcast and
\* leave the registry, the buffers and the filters as they are
C29_MalformedDropped ==
    /\ [][(/\ ProcessStep
           /\ Head(batch).msg.Payload.g = "str"
           /\ Head(batch).msg.Payload.s = JBad) =>
             /\ dispatchLog' = dispatchLog
             /\ resubmits' = resubmits
             /\ rlist' = rlist
             /\ sqs' = sqs
             /\ batch' = Tail(batch)
             /\ wpc' = IF Tail(batch) = <<>> THEN "poll" ELSE "process"]_vars
    /\ [][\A c \in Clients :
             HandleFrameOn(c, JBad) =>
                /\ send' = send
                /\ chClosed' = chClosed
                /\ clients' = clients
                /\ projectID' = projectID
                /\ bc' = bc
                /\ rp' = rp
                /\ connClosed' = connClosed
                /\ ~panicked']_vars
    /\ [][\A ev \in BusEvents :
             (BusMessageOn(ev) /\ ev.payload = JBad) =>
                /\ bc' = bc
                /\ send' = send
                /\ chClosed' = chClosed
                /\ clients' = clients
                /\ projectID' = projectID
                /\ ~panicked']_vars

C29_Witness ==
    /\ Len(sqs) = 1
    /\ sqs[1].sentPayload = GoStr(JBad)
    /\ sqs[1].sentType = "t_ok"
    /\ sqs[1].rc = 1
    /\ dispatchLog[1] = <<>>
    /\ wpc = "poll"
    /\ clients = {1}
    /\ projectID[1] = "P"
    /\ nframes = 2
    /\ send[1] = <<Frame("welcome", 0), Frame("subscribed", 0)>>
    /\ ~chClosed[1]
    /\ nbcast = 1
    /\ bc.pc = "idle"

\* C31: the LSET of RedisQueue.Delete(messageID) changes only a list entry
\* whose job ID is messageID and leaves every other pending entry as it
\* was, also when an Enqueue or a Dequeue of another client reached the list
\* after Delete's LRANGE
C31_DeleteMarksOnlyItsEntry ==
    [][ClientDeleteWrite =>
          /\ Len(rlist') = Len(rlist)
          /\ \A i \in DOMAIN rlist :
                rlist'[i] # rlist[i] =>
                   /\ UnmarshalJob(rlist[i].raw).ok
                   /\ UnmarshalJob(rlist[i].raw).job.ID = cdel.id]_vars

\* C32: a job that the worker submitted again after its handler failed is,
\* at its next dispatch, handed to the handler with the Type and the Data
\* map of the failed attempt, whichever backend is wired
C32_ResubmittedSameTypeAndData ==
    \A k \in Roots :
        \A i \in DOMAIN dispatchLog[k] :
            i > 1 => /\ dispatchLog[k][i].type = dispatchLog[k][i - 1].type
                     /\ dispatchLog[k][i].data = dispatchLog[k][i - 1].data

\* C33: the outbound buffer of a connection is closed at most once and
\* nothing is sent to it after it was closed: no step of the handshake, of a
\* read loop, of a broadcast or of unregisterClient closes a closed buffer or
\* sends on one
C33_BufferClosedOnce ==
    [][/\ ~panicked'
       /\ \A c \in Clients :
             /\ cst'[c] # "aborted"
             /\ chClosed[c] => (chClosed'[c] /\ Len(send'[c]) <= Len(send[c]))]_vars

\* C34: between hub operations a connection that was created is in the
\* registry if and only if its outbound buffer is open
C34_RegisteredIffOpen ==
    \A c \in Clients : cst[c] # "none" => (c \in clients <=> ~chClosed[c])

\* the entries and messages that descend from producer call k and are on the
\* list or in the hands of a consumer, with the dispatches already made
CountRoot(q, k) == Cardinality({i \in DOMAIN q : q[i].root = k})

Accounted(k) ==
    CountRoot(rlist, k) + CountRoot(batch, k) + CountRoot(cbatch, k) + Len(dispatchLog[k])

\* C35: with several instances polling one Redis list, the Dequeue that
\* returns an entry takes it off the list in the same step and hands it to
\* the caller alone, so that the entries returned and dispatched never
\* outnumber the entries enqueued
C35_EntryToOneWorker ==
    /\ [][(WorkerDequeue /\ batch' # <<>>) =>
             /\ rlist # <<>>
             /\ rlist' = Tail(rlist)
             /\ batch' = <<[msg |-> RedisDequeueMsg(Head(rlist)).msg,
                            root |-> Head(rlist).root, idx |-> 0]>>
             /\ cbatch' = cbatch]_vars
    /\ [][(ClientDequeue /\ cbatch' # <<>>) =>
             /\ rlist # <<>>
             /\ rlist' = Tail(rlist)
             /\ cbatch' = <<[msg |-> RedisDequeueMsg(Head(rlist)).msg,
                             root |-> Head(rlist).root, idx |-> 0]>>
             /\ batch' = batch]_vars
    /\ [](\A k \in Roots : Accounted(k) <= 1 + resubmits[k])

C35_Witness ==
    /\ produced = 2
    /\ rlist = <<>>
    /\ Len(cbatch) = 1
    /\ cbatch[1].root = 1
    /\ cbatch[1].msg.ID = JobID(1)
    /\ dispatchLog[1] = <<>>
    /\ Len(dispatchLog[2]) = 1
    /\ wpc = "handler"
    /\ job.j.ID = JobID(2)

\* the buffer q after one more frame was enqueued on it
Enqueued(q, r) == Len(r) = Len(q) + 1 /\ SubSeq(r, 1, Len(q)) = q

C38_WelcomeFirst ==
    [][\A c \in Clients :
          (cst[c] = "registered" /\ send'[c] # send[c]) =>
              /\ cst'[c] = "open"
              /\ send'[c] = <<Frame("welcome", 0)>>]_vars

====
